---------------------------- MODULE Spec2Model ----------------------------
(***************************************************************************)
(* Order lifecycle and payment reconciliation of the kiddie-kingdom        *)
(* backend: OrderService (create, cancelOrder, processPayment,             *)
(* cancelCashOnDeliveryOrder), PaymentService (createPaymentSession,       *)
(* createVnpayPaymentUrl, handleVnpayReturn) and the Order schema hooks.   *)
(*                                                                         *)
(* Strings are sequences of tokens (<<"Payment", " ", "for">>); an id or a *)
(* timestamp is one token.  The HMAC is idealised as collision-free: the   *)
(* digest is a string that spells out the key and the signed characters,   *)
(* so two digests agree exactly when key and signed characters agree.      *)
(***************************************************************************)
EXTENDS Integers, Sequences, FiniteSets, TLC

(***************************************************************************)
(* Bounds of the model.                                                    *)
(***************************************************************************)
MaxOrders == 1
MaxItems == 2
MaxQty == 2
MaxStock == 2
MaxClock == 1
MaxPayments == 2
MaxEmails == 2
MaxFaults == 1
MaxHandlers == 2

(***************************************************************************)
(* Enumerations (shared/enums, database/schemas/payment-history.schema).   *)
(***************************************************************************)
PENDING == "PENDING"
COMPLETED == "COMPLETED"
FAILED == "FAILED"
CANCELED == "CANCELED"
TO_PAY == "TO_PAY"
CASH_ON_DELIVERY == "CASH_ON_DELIVERY"
ONLINE_PAYMENT == "ONLINE_PAYMENT"

PaymentMethods == {CASH_ON_DELIVERY, ONLINE_PAYMENT}

(***************************************************************************)
(* Small helpers.                                                          *)
(***************************************************************************)
Max(a, b) == IF a >= b THEN a ELSE b
Min(a, b) == IF a <= b THEN a ELSE b

RECURSIVE SetMin(_)
SetMin(S) ==
    LET x == CHOOSE y \in S : TRUE
    IN  IF S = {x} THEN x ELSE Min(x, SetMin(S \ {x}))

RECURSIVE SetSum(_, _)
SetSum(f, S) ==
    IF S = {} THEN 0
    ELSE LET x == CHOOSE y \in S : TRUE
         IN  f[x] + SetSum(f, S \ {x})

NoDate == -1
NoVariant == ""
NoVoucher == ""
NoReason == ""
NoCart == [exists |-> FALSE, items |-> <<>>]

(***************************************************************************)
(* The product collection: p1 has the variants v1 and v2, p2 has no        *)
(* variant, no other product exists.  "bad" is a string that is not a      *)
(* valid ObjectId.                                                         *)
(***************************************************************************)
ProductVariants == [p1 |-> {"v1", "v2"}, p2 |-> {}]
VariantPrice == [v1 |-> 100, v2 |-> 50]
VariantIds == DOMAIN VariantPrice
InitStock == [v \in VariantIds |-> IF v = "v1" THEN MaxStock ELSE 1]

IsValidObjectId(id) == id # "bad"

(***************************************************************************)
(* The voucher collection.                                                 *)
(***************************************************************************)
Vouchers ==
    [vc1 |-> [type |-> "FIXED", value |-> 70, minOrderValue |-> 0,
              maxDiscountValue |-> 0, usageLimit |-> 1, endsAt |-> MaxClock]]
VoucherIds == DOMAIN Vouchers

UserIds == {"u1", "u2"}

VARIABLES
    stock,        \* variant id -> quantity (Product.variants[].quantity)
    voucherUsed,  \* voucher id -> usage counter
    orders,       \* the Order collection, in insertion order
    payments,     \* the PaymentHistory collection, in insertion order
    emails,       \* invocations of EmailService.sendOrderConfirmationEmail
    now,          \* the clock, in seconds
    faults,       \* calls of a collaborator that have thrown so far
    inflight,     \* handler -> the callback it is handling, step by step
    cart          \* the Cart document of one user (Cart collection)

vars == <<stock, voucherUsed, orders, payments, emails, now, faults, inflight,
          cart>>

DB == [stock |-> stock, voucherUsed |-> voucherUsed, orders |-> orders,
       payments |-> payments, emails |-> emails, now |-> now]

OrderId(n) == "o" \o ToString(n)
OrderIndex(d, id) ==
    IF \E n \in 1..Len(d.orders) : OrderId(n) = id
    THEN CHOOSE n \in 1..Len(d.orders) : OrderId(n) = id
    ELSE 0

Reply(op, id, err, txn) == [op |-> op, id |-> id, err |-> err, txn |-> txn]
NoTxn == <<>>
\* The outcome of a request: the database it leaves and the reply.  faulted
\* tells that the request met the failure of a collaborator.
Result(d, reply) == [db |-> d, reply |-> reply, faulted |-> FALSE]
Faulted(d, reply) == [db |-> d, reply |-> reply, faulted |-> TRUE]

(***************************************************************************)
(* OrderService.create, step 1: resolution of one item against the product *)
(* collection (the callback of items.map).                                 *)
(***************************************************************************)
ResolveErr(e) == [ok |-> FALSE, error |-> e]
ResolveOk(item, price) ==
    [ok |-> TRUE,
     item |-> [productId |-> item.productId,
               variantId |-> IF item.variantId # NoVariant
                                /\ IsValidObjectId(item.variantId)
                             THEN item.variantId ELSE NoVariant,
               quantity |-> item.quantity,
               price |-> price]]

\* ResolveItem without the comparison of the variant's quantity.
ResolveItemUnchecked(st, item) ==
    IF /\ item.productId \in DOMAIN ProductVariants
       /\ item.variantId \in ProductVariants[item.productId]
    THEN ResolveOk(item, VariantPrice[item.variantId])
    ELSE ResolveErr("ProductNotFound")

\* ResolveItem accepting a product that has no variants, at price 0.
ResolveItemSimpleProducts(st, item) ==
    IF item.productId \notin DOMAIN ProductVariants
    THEN ResolveErr("ProductNotFound")
    ELSE IF ProductVariants[item.productId] = {}
    THEN ResolveOk(item, 0)
    ELSE IF item.variantId \notin ProductVariants[item.productId]
    THEN ResolveErr("VariantNotFound")
    ELSE IF st[item.variantId] < item.quantity
    THEN ResolveErr("OutOfStock")
    ELSE ResolveOk(item, VariantPrice[item.variantId])

ResolveItem(st, item) ==
    IF ~IsValidObjectId(item.productId) THEN ResolveErr("InvalidProductId")
    ELSE IF item.productId \notin DOMAIN ProductVariants
    THEN ResolveErr("ProductNotFound")
    ELSE LET variants == ProductVariants[item.productId]
         IN  IF variants # {}
             THEN IF item.variantId # NoVariant
                  THEN IF ~IsValidObjectId(item.variantId)
                       THEN ResolveErr("InvalidVariantId")
                       ELSE IF item.variantId \notin variants
                       THEN ResolveErr("VariantNotFound")
                       ELSE IF st[item.variantId] < item.quantity
                       THEN ResolveErr("OutOfStock")
                       ELSE ResolveOk(item, VariantPrice[item.variantId])
                  ELSE IF SetSum(st, variants) < item.quantity
                       THEN ResolveErr("OutOfStock")
                       ELSE ResolveOk(item,
                                SetMin({VariantPrice[v] : v \in variants}))
             ELSE ResolveErr("NoVariants")

(***************************************************************************)
(* Promise.all over the items: the request is rejected with the first      *)
(* rejection.  An invalid product id is thrown before the first await, so  *)
(* the first such item rejects first; the other rejections follow the      *)
(* product lookups, which may complete in any order.                       *)
(***************************************************************************)
FailingItems(st, items) ==
    {i \in 1..Len(items) : ~ResolveItem(st, items[i]).ok}

FirstRejections(st, items) ==
    LET failing == FailingItems(st, items)
        sync == {i \in failing :
                    ResolveItem(st, items[i]).error = "InvalidProductId"}
    IN  IF sync # {} THEN {SetMin(sync)} ELSE failing

\* The items whose rejection may be the one create reports; 0: none.
Picks(st, items) ==
    IF FailingItems(st, items) = {} THEN {0} ELSE FirstRejections(st, items)

Subtotal(items) ==
    SetSum([i \in 1..Len(items) |-> items[i].price * items[i].quantity],
           1..Len(items))

(***************************************************************************)
(* VoucherService.verifyVoucherByCode and applyVoucherById.                *)
(***************************************************************************)
VoucherDiscount(v, subtotal) ==
    IF v.type = "PERCENTAGE"
    THEN Min((subtotal * v.value) \div 100, v.maxDiscountValue)
    ELSE Min(v.value, subtotal)

VerifyVoucher(d, voucherId, subtotal) ==
    LET v == Vouchers[voucherId]
        valid == /\ d.now <= v.endsAt
                 /\ d.voucherUsed[voucherId] < v.usageLimit
                 /\ subtotal >= v.minOrderValue
    IN  [valid |-> valid,
         discountAmount |-> IF valid THEN VoucherDiscount(v, subtotal) ELSE 0]

ApplyVoucher(d, voucherId) ==
    [d EXCEPT !.voucherUsed[voucherId] = @ + 1]

(***************************************************************************)
(* ProductService.updateVariantStockOnOrder: debit on order creation,      *)
(* credit on cancellation.                                                 *)
(***************************************************************************)
UpdateVariantStockOnOrder(st, variantId, quantity, isOrderCreation) ==
    [st EXCEPT ![variantId] =
        IF isOrderCreation THEN @ - quantity ELSE @ + quantity]

(***************************************************************************)
(* The stock loops of create, cancelOrder and cancelCashOnDeliveryOrder:   *)
(* items in order, items without a variant id skipped; the call for item   *)
(* failAt throws, which ends the loop (the try encloses the whole loop).   *)
(* failAt = 0: no call throws.                                             *)
(***************************************************************************)
RECURSIVE StockLoop(_, _, _, _, _)
\* The loops with the credits left out.
StockLoopDebitOnly(st, items, i, failAt, isOrderCreation) ==
    IF i > Len(items) \/ ~isOrderCreation THEN st
    ELSE StockLoop(IF items[i].variantId = NoVariant THEN st
                   ELSE UpdateVariantStockOnOrder(st, items[i].variantId,
                                                  items[i].quantity, TRUE),
                   items, i + 1, failAt, isOrderCreation)

\* The loops with the debits left out.
StockLoopCreditOnly(st, items, i, failAt, isOrderCreation) ==
    IF i > Len(items) \/ isOrderCreation THEN st
    ELSE StockLoop(IF items[i].variantId = NoVariant THEN st
                   ELSE UpdateVariantStockOnOrder(st, items[i].variantId,
                                                  items[i].quantity, FALSE),
                   items, i + 1, failAt, isOrderCreation)

\* The loops with an item without a variant id counted on some variant of
\* its product.
StockLoopSomeVariant(st, items, i, failAt, isOrderCreation) ==
    IF i > Len(items) THEN st
    ELSE IF failAt = i THEN st
    ELSE StockLoop(UpdateVariantStockOnOrder(st,
                       IF items[i].variantId # NoVariant THEN items[i].variantId
                       ELSE CHOOSE v \in ProductVariants[items[i].productId] : TRUE,
                       items[i].quantity, isOrderCreation),
                   items, i + 1, failAt, isOrderCreation)

StockLoop(st, items, i, failAt, isOrderCreation) ==
    IF i > Len(items) THEN st
    ELSE IF items[i].variantId = NoVariant
    THEN StockLoop(st, items, i + 1, failAt, isOrderCreation)
    ELSE IF failAt = i THEN st
    ELSE StockLoop(UpdateVariantStockOnOrder(st, items[i].variantId,
                                             items[i].quantity, isOrderCreation),
                   items, i + 1, failAt, isOrderCreation)

StockLoopThrows(items, failAt) ==
    /\ failAt \in 1..Len(items)
    /\ items[failAt].variantId # NoVariant

(***************************************************************************)
(* Order schema: validation of a document and the pre('save') hook that    *)
(* recomputes totalAmount.                                                 *)
(***************************************************************************)
OrderValid(order) ==
    \A i \in 1..Len(order.items) : order.items[i].quantity >= 1

PreSaveTotalAmountGross(order) ==
    IF Len(order.items) > 0 THEN Subtotal(order.items) ELSE 0

PreSaveTotalAmount(order) ==
    IF Len(order.items) > 0
    THEN Max(0, Subtotal(order.items) - order.discountAmount)
    ELSE 0

PreSave(order) == [order EXCEPT !.totalAmount = PreSaveTotalAmount(order)]

(***************************************************************************)
(* Strings of the gateway protocol.  A JavaScript object is a sequence of  *)
(* <<key, value>> pairs in insertion order.                                *)
(***************************************************************************)
RECURSIVE JoinWith(_, _)
JoinWith(ss, sep) ==
    IF ss = <<>> THEN <<>>
    ELSE IF Len(ss) = 1 THEN Head(ss)
    ELSE Head(ss) \o <<sep>> \o JoinWith(Tail(ss), sep)

\* String.prototype.split(sep): the pieces between the separators.
RECURSIVE Split(_, _)
Split(s, sep) ==
    IF \A i \in 1..Len(s) : s[i] # sep THEN <<s>>
    ELSE LET k == CHOOSE i \in 1..Len(s) :
                      s[i] = sep /\ \A j \in 1..(i - 1) : s[j] # sep
         IN  <<SubSeq(s, 1, k - 1)>> \o Split(SubSeq(s, k + 1, Len(s)), sep)

\* querystring.escape, token by token.
QueryEscape(tok) ==
    CASE tok = " " -> "%20"
      [] tok = ":" -> "%3A"
      [] tok = "/" -> "%2F"
      [] tok = "&" -> "%26"
      [] tok = "=" -> "%3D"
      [] OTHER -> tok

EscapeString(s) == [i \in 1..Len(s) |-> QueryEscape(s[i])]

\* querystring.stringify(obj)
Stringify(obj) ==
    JoinWith([i \in 1..Len(obj) |->
                 <<QueryEscape(obj[i][1]), "=">> \o EscapeString(obj[i][2])],
             "&")

\* Object.entries(obj).map(([key, value]) => `${key}=${value}`).join('&')
RawSignData(obj) ==
    JoinWith([i \in 1..Len(obj) |-> <<obj[i][1], "=">> \o obj[i][2]], "&")

Null == <<"null">>

\* The keys of the protocol in the order of Array.prototype.sort().
KeyOrder ==
    <<"vnp_Amount", "vnp_BankCode", "vnp_CardType", "vnp_Command",
      "vnp_CreateDate", "vnp_CurrCode", "vnp_IpAddr", "vnp_Locale",
      "vnp_OrderInfo", "vnp_OrderType", "vnp_PayDate", "vnp_ResponseCode",
      "vnp_ReturnUrl", "vnp_SecureHash", "vnp_SecureHashType", "vnp_TmnCode",
      "vnp_TransactionNo", "vnp_TxnRef", "vnp_Version">>

HasKey(obj, key) == \E i \in 1..Len(obj) : obj[i][1] = key
\* obj[key]: undefined (Null) when absent, the last assignment otherwise.
Get(obj, key) ==
    IF HasKey(obj, key)
    THEN obj[CHOOSE i \in 1..Len(obj) :
                 obj[i][1] = key /\ \A j \in (i + 1)..Len(obj) : obj[j][1] # key][2]
    ELSE Null
\* delete obj[key]
Delete(obj, key) == SelectSeq(obj, LAMBDA kv : kv[1] # key)

\* PaymentService.sortObject
SortObject(obj) ==
    LET present(key) == HasKey(obj, key) /\ Get(obj, key) # Null
        keys == SelectSeq(KeyOrder, present)
    IN  [i \in 1..Len(keys) |-> <<keys[i], Get(obj, keys[i])>>]

\* The characters of a token string, as one string.
RECURSIVE Concat(_)
Concat(s) == IF s = <<>> THEN "" ELSE Head(s) \o Concat(Tail(s))

HashSecret == "VNPAY_HASH_SECRET"
\* crypto.createHmac('sha512', key).update(data).digest('hex')
Hmac(key, data) == "hmac[" \o key \o "](" \o Concat(data) \o ")"

FormatDate(t) == ToString(t)
TxnRef(t, orderId) == <<FormatDate(t), "_", orderId>>
OrderNumber(orderId) == "ORD-" \o orderId

(***************************************************************************)
(* PaymentService.createVnpayPaymentUrl: the redirect URL for an order,    *)
(* read at clock value t.                                                  *)
(***************************************************************************)
VnpayParams(order, orderId, t) ==
    <<  <<"vnp_Version", <<"2.1.0">> >>,
        <<"vnp_Command", <<"pay">> >>,
        <<"vnp_TmnCode", <<"TMN">> >>,
        <<"vnp_Locale", <<"vn">> >>,
        <<"vnp_CurrCode", <<"VND">> >>,
        <<"vnp_TxnRef", TxnRef(t, orderId)>>,
        <<"vnp_OrderInfo",
          <<"Payment", " ", "for", " ", "order", " ", OrderNumber(orderId)>> >>,
        <<"vnp_OrderType", <<"billpayment">> >>,
        <<"vnp_Amount", <<ToString(order.totalAmount * 100)>> >>,
        <<"vnp_ReturnUrl", <<"http", ":", "/", "/", "host", "/", "vnpay-return">> >>,
        <<"vnp_IpAddr", <<"127.0.0.1">> >>,
        <<"vnp_CreateDate", <<FormatDate(t)>> >>  >>

CreateVnpayPaymentUrl(order, orderId, t) ==
    LET sortedParams == SortObject(VnpayParams(order, orderId, t))
        signed == Hmac(HashSecret, RawSignData(sortedParams))
        withHash == Append(sortedParams, <<"vnp_SecureHash", <<signed>> >>)
    IN  [params |-> withHash,
         url |-> <<"VNPAY_URL", "?">>
                     \o Stringify(SubSeq(withHash, 1, Len(sortedParams)))
                     \o <<"&", "vnp_SecureHash", "=", signed>>]

(***************************************************************************)
(* PaymentService.createPaymentSession.  skew: the seconds the clock       *)
(* advances between the clock read of createVnpayPaymentUrl and the one of *)
(* createPaymentSession; createFails: paymentHistoryModel.create throws.   *)
(***************************************************************************)
\* The lookup by id alone.
FindOrderOfAnyUser(d, id, userId) == OrderIndex(d, id)

FindOrder(d, id, userId) ==
    LET n == OrderIndex(d, id)
    IN  IF n # 0 /\ d.orders[n].userId = userId THEN n ELSE 0

\* A payment session that returns the redirect without recording the attempt.
CreatePaymentSessionResultUnrecorded(d, orderId, userId, skew, createFails) ==
    LET n == FindOrder(d, orderId, userId)
    IN  IF n = 0 \/ createFails
        THEN Faulted(d, Reply("pay", orderId, "PaymentProcessingFailed", NoTxn))
        ELSE IF d.orders[n].status # TO_PAY \/ d.orders[n].paymentMethod # ONLINE_PAYMENT
        THEN Result(d, Reply("pay", orderId, "PaymentProcessingFailed", NoTxn))
        ELSE Result(d, Reply("pay", orderId, "none", TxnRef(d.now, orderId)))

CreatePaymentSessionResult(d, orderId, userId, skew, createFails) ==
    LET n == FindOrder(d, orderId, userId)
    IN  IF n = 0
        THEN Result(d, Reply("pay", orderId, "PaymentProcessingFailed", NoTxn))
        ELSE IF d.orders[n].status # TO_PAY
        THEN Result(d, Reply("pay", orderId, "PaymentProcessingFailed", NoTxn))
        ELSE IF d.orders[n].paymentMethod # ONLINE_PAYMENT
        THEN Result(d, Reply("pay", orderId, "PaymentProcessingFailed", NoTxn))
        ELSE LET vnp == CreateVnpayPaymentUrl(d.orders[n], orderId, d.now)
                 later == [d EXCEPT !.now = @ + skew]
                 transactionId == TxnRef(later.now, orderId)
                 record == [userId |-> d.orders[n].userId,
                            orderId |-> orderId,
                            amount |-> d.orders[n].totalAmount,
                            status |-> PENDING,
                            transactionId |-> transactionId,
                            failureReason |-> NoReason,
                            completedAt |-> NoDate,
                            urlTxnRef |-> Get(vnp.params, "vnp_TxnRef")]
             IN  IF createFails
                 THEN Faulted(later,
                             Reply("pay", orderId, "PaymentProcessingFailed", NoTxn))
                 ELSE Result([later EXCEPT !.payments = Append(@, record)],
                             Reply("pay", orderId, "none", transactionId))

(***************************************************************************)
(* OrderService.create.  dto = [items, paymentMethod, voucherId];          *)
(* pick: the item whose rejection reaches Promise.all first;               *)
(* fault: the call of a collaborator that throws in this request           *)
(* (<<"none", 0>>, <<"save", 0>>, <<"adjust", k>> for the stock update of  *)
(* item k, <<"session", 0>> for paymentHistoryModel.create).               *)
(***************************************************************************)
NoFault == <<"none", 0>>
FailAt(fault) == IF fault[1] = "adjust" THEN fault[2] ELSE 0

\* A voucher phase that applies the voucher whatever the verdict of the
\* verification.
VoucherPhaseUnverified(d, voucherId, subtotal) ==
    IF voucherId = NoVoucher
    THEN [err |-> "none", db |-> d, discountAmount |-> 0]
    ELSE IF voucherId \notin VoucherIds
    THEN [err |-> "VoucherNotFound", db |-> d, discountAmount |-> 0]
    ELSE [err |-> "none", db |-> ApplyVoucher(d, voucherId),
          discountAmount |-> VerifyVoucher(d, voucherId, subtotal).discountAmount]

VoucherPhase(d, voucherId, subtotal) ==
    IF voucherId = NoVoucher
    THEN [err |-> "none", db |-> d, discountAmount |-> 0]
    ELSE IF ~IsValidObjectId(voucherId)
    THEN [err |-> "InvalidVoucherId", db |-> d, discountAmount |-> 0]
    ELSE IF voucherId \notin VoucherIds
    THEN [err |-> "VoucherNotFound", db |-> d, discountAmount |-> 0]
    ELSE LET verifyResult == VerifyVoucher(d, voucherId, subtotal)
         IN  IF ~verifyResult.valid
             THEN [err |-> "VoucherInvalid", db |-> d, discountAmount |-> 0]
             ELSE [err |-> "none", db |-> ApplyVoucher(d, voucherId),
                   discountAmount |-> verifyResult.discountAmount]

NewOrder(userId, dto, orderItems, totalAmount, discountAmount) ==
    [userId |-> userId,
     items |-> orderItems,
     paymentMethod |-> dto.paymentMethod,
     voucherId |-> IF dto.voucherId # NoVoucher /\ IsValidObjectId(dto.voucherId)
                   THEN dto.voucherId ELSE NoVoucher,
     paymentStatus |-> PENDING,
     shippingStatus |-> PENDING,
     status |-> TO_PAY,
     totalAmount |-> totalAmount,
     discountAmount |-> discountAmount,
     paidAt |-> NoDate,
     cancelledAt |-> NoDate,
     cancelledReason |-> NoReason]

CreateResult(d, userId, dto, pick, fault, skew) ==
    LET resolved == [i \in 1..Len(dto.items) |-> ResolveItem(d.stock, dto.items[i])]
    IN  IF FailingItems(d.stock, dto.items) # {}
        THEN Result(d, Reply("create", "", resolved[pick].error, NoTxn))
        ELSE
        LET orderItems == [i \in 1..Len(dto.items) |-> resolved[i].item]
            subtotal == Subtotal(orderItems)
            voucher == VoucherPhase(d, dto.voucherId, subtotal)
            totalAmount == Max(0, subtotal - voucher.discountAmount)
            order == NewOrder(userId, dto, orderItems, totalAmount,
                              voucher.discountAmount)
            orderId == OrderId(Len(d.orders) + 1)
        IN  IF voucher.err # "none"
            THEN Result(d, Reply("create", "", voucher.err, NoTxn))
            ELSE IF fault[1] = "save"
            THEN Faulted(voucher.db, Reply("create", "", "SaveFailed", NoTxn))
            ELSE IF ~OrderValid(order)
            THEN Result(voucher.db, Reply("create", "", "SaveFailed", NoTxn))
            ELSE
            LET saved == [voucher.db EXCEPT !.orders = Append(@, PreSave(order))]
                debited == [saved EXCEPT !.stock =
                               StockLoop(@, orderItems, 1, FailAt(fault), TRUE)]
                threw == StockLoopThrows(orderItems, FailAt(fault))
            IN  IF dto.paymentMethod = ONLINE_PAYMENT
                THEN LET session == CreatePaymentSessionResult(
                                        debited, orderId, userId, skew,
                                        fault[1] = "session")
                         reply == IF session.reply.err = "none"
                                  THEN Reply("create", orderId, "none",
                                             session.reply.txn)
                                  ELSE Reply("create", "", session.reply.err, NoTxn)
                     IN  IF threw \/ session.faulted
                         THEN Faulted(session.db, reply)
                         ELSE Result(session.db, reply)
                ELSE IF threw
                THEN Faulted(debited, Reply("create", orderId, "none", NoTxn))
                ELSE Result(debited, Reply("create", orderId, "none", NoTxn))

(***************************************************************************)
(* OrderService.cancelOrder.  fault: <<"adjust", k>> or <<"save", 0>>.     *)
(***************************************************************************)
SaveOrder(d, n, order) == [d EXCEPT !.orders[n] = PreSave(order)]

\* cancelOrder without the check of the payment status.
CancelOrderResultAnyStatus(d, id, userId, fault) ==
    LET n == FindOrder(d, id, userId)
    IN  IF n = 0 THEN Result(d, Reply("cancel", id, "OrderNotFound", NoTxn))
        ELSE Result(SaveOrder([d EXCEPT !.stock =
                                   StockLoop(@, d.orders[n].items, 1, 0, FALSE)],
                              n, [d.orders[n] EXCEPT !.paymentStatus = FAILED,
                                                     !.shippingStatus = CANCELED]),
                    Reply("cancel", id, "none", NoTxn))

CancelOrderResult(d, id, userId, fault) ==
    LET n == FindOrder(d, id, userId)
    IN  IF n = 0 THEN Result(d, Reply("cancel", id, "OrderNotFound", NoTxn))
        ELSE IF d.orders[n].paymentStatus # PENDING
        THEN Result(d, Reply("cancel", id, "BadRequest", NoTxn))
        ELSE
        LET order == [d.orders[n] EXCEPT !.paymentStatus = FAILED,
                                         !.shippingStatus = CANCELED]
            restored == [d EXCEPT !.stock =
                            StockLoop(@, order.items, 1, FailAt(fault), FALSE)]
        IN  IF fault[1] = "save"
            THEN Faulted(restored, Reply("cancel", id, "SaveFailed", NoTxn))
            ELSE IF StockLoopThrows(order.items, FailAt(fault))
            THEN Faulted(SaveOrder(restored, n, order),
                         Reply("cancel", id, "none", NoTxn))
            ELSE Result(SaveOrder(restored, n, order),
                        Reply("cancel", id, "none", NoTxn))

(***************************************************************************)
(* OrderService.processPayment.                                            *)
(***************************************************************************)
ProcessPaymentResult(d, id, userId, skew, createFails) ==
    LET n == FindOrder(d, id, userId)
    IN  IF n = 0 THEN Result(d, Reply("pay", id, "OrderNotFound", NoTxn))
        ELSE IF d.orders[n].paymentStatus # PENDING
        THEN Result(d, Reply("pay", id, "BadRequest", NoTxn))
        ELSE IF d.orders[n].paymentMethod # ONLINE_PAYMENT
        THEN Result(d, Reply("pay", id, "BadRequest", NoTxn))
        ELSE CreatePaymentSessionResult(d, id, userId, skew, createFails)

(***************************************************************************)
(* OrderService.cancelCashOnDeliveryOrder.                                 *)
(***************************************************************************)
\* cancelCashOnDeliveryOrder with the failure of a credit logged and passed
\* over, as cancelOrder does.
CancelCashOnDeliveryOrderResultLenient(d, id, userId, cancelledReason, fault) ==
    LET n == FindOrder(d, id, userId)
    IN  IF n = 0 THEN Result(d, Reply("cancelCod", id, "OrderNotFound", NoTxn))
        ELSE IF \/ d.orders[n].paymentMethod # CASH_ON_DELIVERY
                \/ d.orders[n].paymentStatus # PENDING
                \/ d.orders[n].shippingStatus # PENDING
        THEN Result(d, Reply("cancelCod", id, "BadRequest", NoTxn))
        ELSE Result(SaveOrder([d EXCEPT !.stock =
                                   StockLoop(@, d.orders[n].items, 1,
                                             FailAt(fault), FALSE)],
                              n, [d.orders[n] EXCEPT
                                     !.shippingStatus = CANCELED,
                                     !.cancelledAt = d.now,
                                     !.cancelledReason = cancelledReason]),
                    Reply("cancelCod", id, "none", NoTxn))

CancelCashOnDeliveryOrderResult(d, id, userId, cancelledReason, fault) ==
    LET n == FindOrder(d, id, userId)
    IN  IF n = 0 THEN Result(d, Reply("cancelCod", id, "OrderNotFound", NoTxn))
        ELSE IF d.orders[n].paymentMethod # CASH_ON_DELIVERY
        THEN Result(d, Reply("cancelCod", id, "BadRequest", NoTxn))
        ELSE IF d.orders[n].paymentStatus # PENDING
        THEN Result(d, Reply("cancelCod", id, "BadRequest", NoTxn))
        ELSE IF d.orders[n].shippingStatus # PENDING
        THEN Result(d, Reply("cancelCod", id, "BadRequest", NoTxn))
        ELSE
        LET order == [d.orders[n] EXCEPT !.shippingStatus = CANCELED,
                                         !.cancelledAt = d.now,
                                         !.cancelledReason = cancelledReason]
            restored == [d EXCEPT !.stock =
                            StockLoop(@, order.items, 1, FailAt(fault), FALSE)]
        IN  IF StockLoopThrows(order.items, FailAt(fault))
            THEN Faulted(restored,
                         Reply("cancelCod", id, "InternalServerError", NoTxn))
            ELSE IF fault[1] = "save"
            THEN Faulted(restored, Reply("cancelCod", id, "SaveFailed", NoTxn))
            ELSE Result(SaveOrder(restored, n, order),
                        Reply("cancelCod", id, "none", NoTxn))

(***************************************************************************)
(* PaymentService.handleVnpayReturn.  query: the query string of the       *)
(* callback as an object.                                                  *)
(***************************************************************************)
\* A verification that only asks for a signature to be present.
SignatureValidIfPresent(query) == HasKey(query, "vnp_SecureHash")

SignatureValid(query) ==
    LET secureHash == Get(query, "vnp_SecureHash")
        vnpParams == Delete(Delete(query, "vnp_SecureHash"), "vnp_SecureHashType")
        sortedParams == SortObject(vnpParams)
        signed == Hmac(HashSecret, Stringify(sortedParams))
    IN  secureHash = <<signed>>

\* txnRef.split('_')[1]
OrderIdOfTxnRef(txnRef) ==
    LET parts == Split(txnRef, "_")
    IN  IF Len(parts) >= 2 /\ Len(parts[2]) = 1 THEN parts[2][1] ELSE "undefined"

\* paymentHistoryModel.findOne({ orderId }): the first record of the order.
FindPaymentHistory(d, orderId) ==
    LET matching == {k \in 1..Len(d.payments) : d.payments[k].orderId = orderId}
    IN  IF matching = {} THEN 0 ELSE SetMin(matching)

\* `VNPay error code: ${responseCode}`
FailureReason(responseCode) == "VNPay error code: " \o Concat(responseCode)

\* A handler whose success branch writes paymentStatus as well, whatever it
\* was.
HandleVnpayReturnResultPaying(d, query) ==
    LET txnRef == Get(query, "vnp_TxnRef")
        orderId == OrderIdOfTxnRef(txnRef)
        k == FindPaymentHistory(d, orderId)
        n == OrderIndex(d, orderId)
    IN  IF ~SignatureValid(query) \/ txnRef = Null \/ k = 0 \/ n = 0
        THEN Result(d, Reply("vnpay", "", "VerificationFailed", NoTxn))
        ELSE IF Get(query, "vnp_ResponseCode") # <<"00">>
        THEN Result([d EXCEPT !.payments[k].status = FAILED],
                    Reply("vnpay", orderId, "PaymentFailed", txnRef))
        ELSE Result([d EXCEPT !.payments[k].status = COMPLETED,
                              !.payments[k].completedAt = d.now,
                              !.orders[n].paymentStatus = COMPLETED,
                              !.orders[n].status = COMPLETED,
                              !.orders[n].paidAt = d.now,
                              !.emails = Append(@, orderId)],
                    Reply("vnpay", orderId, "none", txnRef))

HandleVnpayReturnResult(d, query) ==
    LET txnRef == Get(query, "vnp_TxnRef")
        orderId == OrderIdOfTxnRef(txnRef)
        responseCode == Get(query, "vnp_ResponseCode")
        k == FindPaymentHistory(d, orderId)
        n == OrderIndex(d, orderId)
    IN  IF ~SignatureValid(query)
        THEN Result(d, Reply("vnpay", "", "InvalidSignature", NoTxn))
        ELSE IF txnRef = Null
        THEN Result(d, Reply("vnpay", "", "VerificationFailed", NoTxn))
        ELSE IF k = 0
        THEN Result(d, Reply("vnpay", orderId, "PaymentRecordNotFound", NoTxn))
        ELSE IF responseCode = <<"00">>
        THEN LET completed == [d EXCEPT !.payments[k].status = COMPLETED,
                                        !.payments[k].completedAt = d.now]
             IN  IF n = 0
                 THEN Result(completed, Reply("vnpay", orderId, "none", txnRef))
                 ELSE LET order == [completed.orders[n] EXCEPT
                                        !.status = COMPLETED, !.paidAt = d.now]
                          paid == SaveOrder(completed, n, order)
                      IN  Result([paid EXCEPT !.emails = Append(@, orderId)],
                                 Reply("vnpay", orderId, "none", txnRef))
        ELSE Result([d EXCEPT !.payments[k].status = FAILED,
                              !.payments[k].failureReason =
                                  FailureReason(responseCode)],
                    Reply("vnpay", orderId, "PaymentFailed", txnRef))

(***************************************************************************)
(* Requests.                                                               *)
(***************************************************************************)
\* The items of the requests: each variant of p1, p1 without a variant, and
\* a product that does not exist.
ItemInputs ==
    {[productId |-> "p1", variantId |-> v, quantity |-> q] :
        v \in {"v1", "v2"}, q \in 1..MaxQty}
    \cup {[productId |-> p, variantId |-> NoVariant, quantity |-> 1] :
            p \in {"p1", "p3"}}

RECURSIVE SeqsUpTo(_, _)
SeqsUpTo(S, n) ==
    IF n = 0 THEN {<<>>}
    ELSE LET shorter == SeqsUpTo(S, n - 1)
         IN  shorter \cup {Append(s, x) : s \in shorter, x \in S}

ItemLists == SeqsUpTo(ItemInputs, MaxItems)

\* More items: a product without variants, ids that are not ObjectIds, a
\* variant that p1 does not have, a quantity of 0.
AllItemInputs ==
    (ItemInputs \ {[productId |-> "p1", variantId |-> "v2", quantity |-> MaxQty]})
    \cup {[productId |-> "p2", variantId |-> NoVariant, quantity |-> 1],
          [productId |-> "bad", variantId |-> "v1", quantity |-> 1],
          [productId |-> "p1", variantId |-> "v9", quantity |-> 1],
          [productId |-> "p1", variantId |-> "bad", quantity |-> 1],
          [productId |-> "p1", variantId |-> "v1", quantity |-> 0]}
AllItemLists == SeqsUpTo(AllItemInputs, MaxItems)
VoucherIdInputs == {NoVoucher, "vc1", "vc0", "bad"}
\* Orders are placed by u1; u2 is another signed-in user.
CustomerIds == {"u1"}
OrderIdInputs == {OrderId(n) : n \in 0..MaxOrders}
ReasonInputs == {"changed my mind"}

AllFaults(items) ==
    {NoFault, <<"save", 0>>, <<"session", 0>>}
    \cup {<<"adjust", k>> : k \in {i \in 1..Len(items) :
                                     items[i].variantId # NoVariant}}

Faults(items) == IF faults < MaxFaults THEN AllFaults(items) ELSE {NoFault}

OrderItems(d, id) ==
    IF OrderIndex(d, id) = 0 THEN <<>> ELSE d.orders[OrderIndex(d, id)].items

Skews == {s \in 0..1 : now + s <= MaxClock}

\* The callback of the gateway for a transaction reference, and forgeries
\* of it: signed with a guessed key, the response code changed after
\* signing, and not signed at all.
CallbackParams(txnRef, orderId, responseCode) ==
    <<  <<"vnp_TxnRef", txnRef>>,
        <<"vnp_OrderInfo",
          <<"Payment", " ", "for", " ", "order", " ", OrderNumber(orderId)>> >>,
        <<"vnp_ResponseCode", <<responseCode>> >>  >>

SignCallback(params, key) ==
    Append(params, <<"vnp_SecureHash", <<Hmac(key, Stringify(SortObject(params)))>> >>)

GatewayCallback(txnRef, responseCode) ==
    SignCallback(CallbackParams(txnRef, OrderIdOfTxnRef(txnRef), responseCode),
                 HashSecret)

ForgedCallbacks(txnRef) ==
    LET params(c) == CallbackParams(txnRef, OrderIdOfTxnRef(txnRef), c)
    IN  {SignCallback(params("00"), "guess"),
         Append(params("00"),
                <<"vnp_SecureHash", Get(GatewayCallback(txnRef, "24"), "vnp_SecureHash")>>),
         params("00")}

IssuedTxnRefs(d) == {d.payments[k].urlTxnRef : k \in 1..Len(d.payments)}
OtherTxnRefs == {TxnRef(0, OrderId(0)), <<"0">>}
ResponseCodes == {"00", "24"}

CallbackInputs(d) ==
    {GatewayCallback(t, c) : t \in IssuedTxnRefs(d) \cup OtherTxnRefs,
                             c \in ResponseCodes}
    \cup UNION {ForgedCallbacks(t) : t \in IssuedTxnRefs(d)}

(***************************************************************************)
(* The state machine: one action per request, handled to completion.       *)
(***************************************************************************)
Handlers == 1..MaxHandlers
Idle == [pc |-> "idle"]

Init ==
    /\ stock = InitStock
    /\ voucherUsed = [v \in VoucherIds |-> 0]
    /\ orders = <<>>
    /\ payments = <<>>
    /\ emails = <<>>
    /\ now = 0
    /\ faults = 0
    /\ inflight = [h \in Handlers |-> Idle]
    /\ cart = NoCart

\* A request is handled to completion: the database becomes the one of its
\* result, the reply goes to the client.  fault is the failure of a
\* collaborator that the request meets.
Submit(r, fault) ==
    /\ Len(r.db.orders) <= MaxOrders
    /\ Len(r.db.payments) <= MaxPayments
    /\ Len(r.db.emails) <= MaxEmails
    /\ stock' = r.db.stock
    /\ voucherUsed' = r.db.voucherUsed
    /\ orders' = r.db.orders
    /\ payments' = r.db.payments
    /\ emails' = r.db.emails
    /\ now' = r.db.now
    /\ faults' = IF fault = NoFault THEN faults ELSE faults + 1
    /\ fault # NoFault => r.faulted
    /\ UNCHANGED <<inflight, cart, cart>>

CreateOf(lists) ==
    /\ Len(orders) < MaxOrders
    /\ \E userId \in CustomerIds, items \in lists,
          paymentMethod \in PaymentMethods, voucherId \in VoucherIdInputs :
         LET dto == [items |-> items, paymentMethod |-> paymentMethod,
                     voucherId |-> voucherId]
         IN  \E pick \in Picks(stock, items), fault \in Faults(items),
                skew \in Skews :
                 Submit(CreateResult(DB, userId, dto, pick, fault, skew), fault)

Create == CreateOf(ItemLists)

CancelOrder ==
    \E id \in OrderIdInputs, userId \in UserIds :
        \E fault \in Faults(OrderItems(DB, id)) :
            Submit(CancelOrderResult(DB, id, userId, fault), fault)

ProcessPayment ==
    \E id \in OrderIdInputs, userId \in UserIds, skew \in Skews :
        \E fault \in Faults(<<>>) :
            Submit(ProcessPaymentResult(DB, id, userId, skew, fault[1] = "session"),
                   fault)

CancelCashOnDeliveryOrder ==
    \E id \in OrderIdInputs, userId \in UserIds, reason \in ReasonInputs :
        \E fault \in Faults(OrderItems(DB, id)) :
            Submit(CancelCashOnDeliveryOrderResult(DB, id, userId, reason, fault),
                   fault)

HandleVnpayReturn ==
    \E query \in CallbackInputs(DB) : Submit(HandleVnpayReturnResult(DB, query), NoFault)

Tick ==
    /\ now < MaxClock
    /\ now' = now + 1
    /\ UNCHANGED <<stock, voucherUsed, orders, payments, emails, faults, inflight, cart>>

Next ==
    \/ Create
    \/ CancelOrder
    \/ ProcessPayment
    \/ CancelCashOnDeliveryOrder
    \/ HandleVnpayReturn
    \/ Tick

Spec == Init /\ [][Next]_vars

(***************************************************************************)
(* Order placement alone, for any stock of the catalog and any request,     *)
(* the collaborators not failing.                                          *)
(***************************************************************************)
InitCheckout ==
    /\ stock \in [VariantIds -> 0..MaxStock]
    /\ voucherUsed \in [VoucherIds -> 0..1]
    /\ orders = <<>>
    /\ payments = <<>>
    /\ emails = <<>>
    /\ now = 0
    /\ faults = MaxFaults
    /\ inflight = [h \in Handlers |-> Idle]
    /\ cart = NoCart

Checkout == CreateOf(AllItemLists)

NextCheckout == Checkout

SpecCheckout == InitCheckout /\ [][NextCheckout]_vars

(***************************************************************************)
(* Callbacks handled concurrently: handleVnpayReturn step by step, one     *)
(* step per await, for an online order of one item that has been created.  *)
(* A handler holds the documents it has read: paymentHistory (with k, its  *)
(* place in the collection) and order (n).  wrote: it has saved the record; *)
(* sent: it has invoked the email service.                                 *)
(***************************************************************************)
FirstOrder ==
    CreateResult([stock |-> InitStock, voucherUsed |-> [v \in VoucherIds |-> 0],
                  orders |-> <<>>, payments |-> <<>>, emails |-> <<>>, now |-> 0],
                 "u1",
                 [items |-> <<[productId |-> "p1", variantId |-> "v1",
                               quantity |-> 1]>>,
                  paymentMethod |-> ONLINE_PAYMENT, voucherId |-> NoVoucher],
                 0, NoFault, 0).db

InitConcurrent ==
    /\ stock = FirstOrder.stock
    /\ voucherUsed = FirstOrder.voucherUsed
    /\ orders = FirstOrder.orders
    /\ payments = FirstOrder.payments
    /\ emails = <<>>
    /\ now = 0
    /\ faults = 0
    /\ inflight = [h \in Handlers |-> Idle]
    /\ cart = NoCart

Goto(h, handler) == inflight' = [inflight EXCEPT ![h] = handler]

\* Lines 164-191: the signature is verified, the order id and the response
\* code are taken from the query.
Receive(h) ==
    /\ inflight[h] = Idle
    /\ Len(emails) + Cardinality({g \in Handlers : inflight[g] # Idle}) < MaxEmails
    /\ \E query \in CallbackInputs(DB) :
         /\ SignatureValid(query)
         /\ Get(query, "vnp_TxnRef") # Null
         /\ Goto(h, [pc |-> "findPayment", query |-> query,
                      orderId |-> OrderIdOfTxnRef(Get(query, "vnp_TxnRef")),
                      wrote |-> FALSE, sent |-> FALSE])
    /\ UNCHANGED <<stock, voucherUsed, orders, payments, emails, now, faults, cart>>

\* Lines 194-200: paymentHistoryModel.findOne({ orderId }).
FindPayment(h) ==
    /\ inflight[h].pc = "findPayment"
    /\ LET k == FindPaymentHistory(DB, inflight[h].orderId)
       IN  IF k = 0 THEN Goto(h, Idle)
           ELSE Goto(h, [inflight[h] EXCEPT !.pc = "savePayment"]
                            @@ [k |-> k, paymentHistory |-> payments[k]])
    /\ UNCHANGED <<stock, voucherUsed, orders, payments, emails, now, faults, cart>>

\* Lines 203-214 and 249-253: the record is set COMPLETED or FAILED and
\* saved; save writes the paths that were assigned.
SavePayment(h) ==
    /\ inflight[h].pc = "savePayment"
    /\ LET k == inflight[h].k
           responseCode == Get(inflight[h].query, "vnp_ResponseCode")
       IN  IF responseCode = <<"00">>
           THEN /\ payments' = [payments EXCEPT ![k].status = COMPLETED,
                                                ![k].completedAt = now]
                /\ Goto(h, [inflight[h] EXCEPT !.pc = "findOrder", !.wrote = TRUE])
           ELSE /\ payments' = [payments EXCEPT
                                   ![k].status = FAILED,
                                   ![k].failureReason = FailureReason(responseCode)]
                /\ Goto(h, [inflight[h] EXCEPT !.pc = "respond", !.wrote = TRUE])
    /\ UNCHANGED <<stock, voucherUsed, orders, emails, now, faults, cart>>

\* Lines 217-218: orderModel.findById(orderId).
FindOrderById(h) ==
    /\ inflight[h].pc = "findOrder"
    /\ LET n == OrderIndex(DB, inflight[h].orderId)
       IN  IF n = 0 THEN Goto(h, [inflight[h] EXCEPT !.pc = "respond"])
           ELSE Goto(h, [inflight[h] EXCEPT !.pc = "saveOrder"]
                            @@ [n |-> n, order |-> orders[n]])
    /\ UNCHANGED <<stock, voucherUsed, orders, payments, emails, now, faults, cart>>

\* Lines 219-221: order.status, order.paidAt, order.save().
SaveOrderPaid(h) ==
    /\ inflight[h].pc = "saveOrder"
    /\ LET n == inflight[h].n
           order == [orders[n] EXCEPT !.status = COMPLETED, !.paidAt = now,
                         !.totalAmount = PreSaveTotalAmount(inflight[h].order)]
       IN  orders' = [orders EXCEPT ![n] = order]
    /\ Goto(h, [inflight[h] EXCEPT !.pc = "sendEmail"])
    /\ UNCHANGED <<stock, voucherUsed, payments, emails, now, faults, cart>>

\* Lines 224-240: emailService.sendOrderConfirmationEmail.
SendEmail(h) ==
    /\ inflight[h].pc = "sendEmail"
    /\ emails' = Append(emails, inflight[h].orderId)
    /\ Goto(h, [inflight[h] EXCEPT !.pc = "respond", !.sent = TRUE])
    /\ UNCHANGED <<stock, voucherUsed, orders, payments, now, faults, cart>>

\* Lines 243-247 and 256-260: the redirect is returned.
Respond(h) ==
    /\ inflight[h].pc = "respond"
    /\ Goto(h, Idle)
    /\ UNCHANGED <<stock, voucherUsed, orders, payments, emails, now, faults, cart>>

NextConcurrent ==
    \/ \E h \in Handlers : Receive(h)
    \/ \E h \in Handlers : FindPayment(h)
    \/ \E h \in Handlers : SavePayment(h)
    \/ \E h \in Handlers : FindOrderById(h)
    \/ \E h \in Handlers : SaveOrderPaid(h)
    \/ \E h \in Handlers : SendEmail(h)
    \/ \E h \in Handlers : Respond(h)
    \/ Tick

SpecConcurrent == InitConcurrent /\ [][NextConcurrent]_vars

(***************************************************************************)
(* OrderService.create step by step, one step per awaited call, for        *)
(* requests handled concurrently.  A request holds its local variables:    *)
(* dto, orderItems (the items resolved so far, by position), the discount, *)
(* n (the place of the saved order), i (the position of the stock loop),   *)
(* adjusted (the positions of the items whose stock update has returned,   *)
(* in the order of the calls), threw (a stock update has thrown) and err.  *)
(***************************************************************************)
StepItemInputs ==
    {[productId |-> "p1", variantId |-> v, quantity |-> 1] :
        v \in {"v1", "v2", NoVariant}}

StepItemLists ==
    (SeqsUpTo(StepItemInputs, MaxItems) \ {<<>>})
    \cup {<<[productId |-> "p1", variantId |-> "v1", quantity |-> 1],
            [productId |-> "p3", variantId |-> NoVariant, quantity |-> 1]>>}

StepRequests ==
    [items : StepItemLists, paymentMethod : PaymentMethods,
     voucherId : {NoVoucher, "vc1"}]

\* The items from position i on that the stock loop does not skip.
ToAdjust(items, i) ==
    {j \in i..Len(items) : items[j].variantId # NoVariant}

\* Where create goes on when the stock loop has ended.
AfterStockLoop(dto) ==
    IF dto.paymentMethod = ONLINE_PAYMENT THEN "session" ELSE "done"

\* Line 43: a request arrives.
BeginCreate(h) ==
    /\ inflight[h] = Idle
    /\ \E dto \in StepRequests :
           Goto(h, [pc |-> "resolve", dto |-> dto, orderItems |-> <<>>,
                    discountAmount |-> 0, n |-> 0, i |-> 0, adjusted |-> <<>>,
                    threw |-> FALSE, err |-> "none"])
    /\ UNCHANGED <<stock, voucherUsed, orders, payments, emails, now, faults, cart>>

\* Lines 47-128: the callbacks of Promise.all run in any order; each reads
\* its product and rejects or returns its order item.  The first rejection
\* is the one of create.
ResolveStep(h) ==
    /\ inflight[h].pc = "resolve"
    /\ LET c == inflight[h]
           items == c.dto.items
       IN  \E i \in (1..Len(items)) \ DOMAIN c.orderItems :
               LET result == ResolveItem(stock, items[i])
                   resolved == DOMAIN c.orderItems \cup {i}
               IN  IF ~result.ok
                   THEN Goto(h, [c EXCEPT !.pc = "done", !.err = result.error])
                   ELSE Goto(h, [c EXCEPT
                            !.orderItems = [j \in resolved |->
                                IF j = i THEN result.item ELSE c.orderItems[j]],
                            !.pc = IF resolved # 1..Len(items) THEN "resolve"
                                   ELSE IF c.dto.voucherId # NoVoucher
                                   THEN "verify" ELSE "save"])
    /\ UNCHANGED <<stock, voucherUsed, orders, payments, emails, now, faults, cart>>

\* Lines 139-161: the voucher is looked up and verified with the subtotal.
VerifyStep(h) ==
    /\ inflight[h].pc = "verify"
    /\ LET c == inflight[h]
           verifyResult == VerifyVoucher(DB, c.dto.voucherId, Subtotal(c.orderItems))
       IN  IF ~verifyResult.valid
           THEN Goto(h, [c EXCEPT !.pc = "done", !.err = "VoucherInvalid"])
           ELSE Goto(h, [c EXCEPT !.pc = "apply",
                                  !.discountAmount = verifyResult.discountAmount])
    /\ UNCHANGED <<stock, voucherUsed, orders, payments, emails, now, faults, cart>>

\* Line 164: applyVoucherById.
ApplyStep(h) ==
    /\ inflight[h].pc = "apply"
    /\ voucherUsed' = ApplyVoucher(DB, inflight[h].dto.voucherId).voucherUsed
    /\ Goto(h, [inflight[h] EXCEPT !.pc = "save"])
    /\ UNCHANGED <<stock, orders, payments, emails, now, faults, cart>>

\* Lines 174-207: the order is built and saved.
SaveStep(h) ==
    /\ inflight[h].pc = "save"
    /\ LET c == inflight[h]
           order == NewOrder("u1", c.dto, c.orderItems,
                             Max(0, Subtotal(c.orderItems) - c.discountAmount),
                             c.discountAmount)
       IN  /\ orders' = Append(orders, PreSave(order))
           /\ Goto(h, [c EXCEPT !.n = Len(orders) + 1, !.i = 1,
                                !.pc = IF ToAdjust(c.orderItems, 1) = {}
                                       THEN AfterStockLoop(c.dto) ELSE "debit"])
    /\ UNCHANGED <<stock, voucherUsed, payments, emails, now, faults, cart>>

\* A stock loop that takes the items left in any order.
DebitStepAnyOrder(h) ==
    /\ inflight[h].pc = "debit"
    /\ LET c == inflight[h]
           items == c.orderItems
           done == {c.adjusted[k] : k \in 1..Len(c.adjusted)}
       IN  \E j \in ToAdjust(items, 1) \ done :
               /\ stock' = UpdateVariantStockOnOrder(stock, items[j].variantId,
                                                     items[j].quantity, TRUE)
               /\ Goto(h, [c EXCEPT !.adjusted = Append(@, j),
                                    !.pc = IF ToAdjust(items, 1) \ done = {j}
                                           THEN AfterStockLoop(c.dto)
                                           ELSE "debit"])
    /\ UNCHANGED <<voucherUsed, orders, payments, emails, now, faults, cart>>

\* A stock loop whose failure undoes the updates made and fails the create.
DebitStepAllOrNothing(h) ==
    /\ inflight[h].pc = "debit"
    /\ LET c == inflight[h]
           items == c.orderItems
           j == SetMin(ToAdjust(items, c.i))
       IN  \/ /\ stock' = UpdateVariantStockOnOrder(stock, items[j].variantId,
                                                     items[j].quantity, TRUE)
              /\ Goto(h, [c EXCEPT !.i = j + 1, !.adjusted = Append(@, j),
                                   !.pc = IF ToAdjust(items, j + 1) = {}
                                          THEN AfterStockLoop(c.dto)
                                          ELSE "debit"])
              /\ UNCHANGED faults
           \/ /\ faults < MaxFaults
              /\ faults' = faults + 1
              /\ stock' = StockLoop(stock, SubSeq(items, 1, j - 1), 1, 0, FALSE)
              /\ Goto(h, [c EXCEPT !.threw = TRUE, !.pc = "done",
                                   !.err = "StockUpdateFailed"])
    /\ UNCHANGED <<voucherUsed, orders, payments, emails, now, cart>>

\* Lines 210-225: one pass of the stock loop, to the next item with a
\* variant id: its stock update is awaited, and returns or throws.  A throw
\* ends the loop.
DebitStep(h) ==
    /\ inflight[h].pc = "debit"
    /\ LET c == inflight[h]
           items == c.orderItems
           j == SetMin(ToAdjust(items, c.i))
       IN  \/ /\ stock' = UpdateVariantStockOnOrder(stock, items[j].variantId,
                                                     items[j].quantity, TRUE)
              /\ Goto(h, [c EXCEPT !.i = j + 1, !.adjusted = Append(@, j),
                                   !.pc = IF ToAdjust(items, j + 1) = {}
                                          THEN AfterStockLoop(c.dto)
                                          ELSE "debit"])
              /\ UNCHANGED faults
           \/ /\ faults < MaxFaults
              /\ faults' = faults + 1
              /\ Goto(h, [c EXCEPT !.threw = TRUE, !.pc = AfterStockLoop(c.dto)])
              /\ UNCHANGED stock
    /\ UNCHANGED <<voucherUsed, orders, payments, emails, now, cart>>

\* Lines 228-229: createPaymentSession for the saved order.
SessionStep(h) ==
    /\ inflight[h].pc = "session"
    /\ LET c == inflight[h]
           session == CreatePaymentSessionResult(DB, OrderId(c.n), "u1", 0, FALSE)
       IN  /\ payments' = session.db.payments
           /\ Goto(h, [c EXCEPT !.pc = "done", !.err = session.reply.err])
    /\ UNCHANGED <<stock, voucherUsed, orders, emails, now, faults, cart>>

NextCreate ==
    \/ \E h \in Handlers : BeginCreate(h)
    \/ \E h \in Handlers : ResolveStep(h)
    \/ \E h \in Handlers : VerifyStep(h)
    \/ \E h \in Handlers : ApplyStep(h)
    \/ \E h \in Handlers : SaveStep(h)
    \/ \E h \in Handlers : DebitStep(h)
    \/ \E h \in Handlers : SessionStep(h)

SpecCreate == Init /\ [][NextCreate]_vars

(***************************************************************************)
(* Properties.                                                             *)
(***************************************************************************)
\* The price the catalog gives for an order item: the price of its variant,
\* the lowest price of the product when the item names no variant.
CatalogPrice(item) ==
    IF item.variantId # NoVariant THEN VariantPrice[item.variantId]
    ELSE SetMin({VariantPrice[v] : v \in ProductVariants[item.productId]})

\* The discount of the voucher of an order for the subtotal of the order.
CatalogDiscount(order) ==
    IF order.voucherId = NoVoucher THEN 0
    ELSE VoucherDiscount(Vouchers[order.voucherId], Subtotal(order.items))

\* C1: every persisted order has totalAmount = max(0, sum of unit price *
\* quantity over its items - discountAmount), the unit prices being those of
\* the catalog and the discount that of the order's voucher.
C1_TotalAmountRecomputed ==
    \A n \in 1..Len(orders) :
        LET order == orders[n]
        IN  /\ order.totalAmount =
                   Max(0, Subtotal(order.items) - order.discountAmount)
            /\ \A i \in 1..Len(order.items) :
                   order.items[i].price = CatalogPrice(order.items[i])
            /\ order.discountAmount = CatalogDiscount(order)

\* An order of two items with a discount has been persisted.
C1_Witness ==
    \E n \in 1..Len(orders) :
        /\ Len(orders[n].items) = 2
        /\ orders[n].discountAmount > 0
        /\ orders[n].totalAmount > 0

\* The requests a client may send to create, and the results create may have
\* for a request in a database.
CreateRequests ==
    [items : AllItemLists, paymentMethod : PaymentMethods,
     voucherId : VoucherIdInputs]

CreateOutcomes(d, userId, dto) ==
    {CreateResult(d, userId, dto, pick, fault, 0) :
        pick \in Picks(d.stock, dto.items), fault \in AllFaults(dto.items)}

\* The item names a variant of its product of which less is left than the
\* item asks for.
Understocked(st, item) ==
    /\ item.productId \in DOMAIN ProductVariants
    /\ item.variantId \in ProductVariants[item.productId]
    /\ st[item.variantId] < item.quantity

\* The catalog serves the item: the product has variants, and the variant
\* named (all of them together, when none is named) covers the quantity.
Resolvable(st, item) ==
    /\ item.productId \in DOMAIN ProductVariants
    /\ ProductVariants[item.productId] # {}
    /\ IF item.variantId = NoVariant
       THEN SetSum(st, ProductVariants[item.productId]) >= item.quantity
       ELSE /\ item.variantId \in ProductVariants[item.productId]
            /\ st[item.variantId] >= item.quantity

HasUnderstocked(dto) ==
    \E i \in 1..Len(dto.items) : Understocked(stock, dto.items[i])

\* C2 as stated: every create request with an item naming a variant whose
\* quantity is less than the one requested fails with the insufficient-stock
\* error and creates no order.
C2_InsufficientStock ==
    \A dto \in CreateRequests :
        HasUnderstocked(dto) =>
            \A r \in CreateOutcomes(DB, "u1", dto) :
                r.reply.err = "OutOfStock" /\ r.db.orders = orders

\* C2, amended: such a request fails and creates no order; the error is the
\* insufficient-stock error when every other item of the request can be
\* served by the catalog.
C2_UnderstockedRejected ==
    \A dto \in CreateRequests :
        HasUnderstocked(dto) =>
            \A r \in CreateOutcomes(DB, "u1", dto) :
                /\ r.reply.err # "none"
                /\ r.db.orders = orders
                /\ (\A i \in 1..Len(dto.items) :
                        \/ Understocked(stock, dto.items[i])
                        \/ Resolvable(stock, dto.items[i]))
                   => r.reply.err = "OutOfStock"

\* A request of an item that can be served and an item whose variant has
\* stock left, but less than requested, is rejected for insufficient stock.
C2_Witness ==
    \E dto \in CreateRequests :
        /\ Len(dto.items) = 2
        /\ Resolvable(stock, dto.items[1])
        /\ Understocked(stock, dto.items[2])
        /\ stock[dto.items[2].variantId] > 0
        /\ \A r \in CreateOutcomes(DB, "u1", dto) : r.reply.err = "OutOfStock"

DbUnchanged(r) ==
    /\ r.db.stock = stock
    /\ r.db.voucherUsed = voucherUsed
    /\ r.db.orders = orders
    /\ r.db.payments = payments
    /\ r.db.emails = emails

\* C3: when the resolution of some item of a create request fails, whatever
\* the other items, create fails and persists no order, changes no stock,
\* increments no voucher usage and creates no payment-history record.
C3_ResolutionFailureAborts ==
    \A dto \in CreateRequests :
        (\E i \in 1..Len(dto.items) : ~Resolvable(stock, dto.items[i])) =>
            \A r \in CreateOutcomes(DB, "u1", dto) :
                r.reply.err # "none" /\ DbUnchanged(r)

\* An online order of an item the catalog serves and an item of a product
\* without variants, with a voucher that is still valid, is rejected.
C3_Witness ==
    \E dto \in CreateRequests :
        /\ Len(dto.items) = 2
        /\ Resolvable(stock, dto.items[1])
        /\ dto.items[1].variantId # NoVariant
        /\ dto.items[2].productId = "p2"
        /\ dto.voucherId = "vc1" /\ voucherUsed["vc1"] = 0
        /\ dto.paymentMethod = ONLINE_PAYMENT
        /\ \A r \in CreateOutcomes(DB, "u1", dto) :
               r.reply.err = "NoVariants" /\ DbUnchanged(r)

CancelRequests(d) ==
    UNION {{<<id, userId, fault>> :
               userId \in UserIds, fault \in AllFaults(OrderItems(d, id))} :
           id \in OrderIdInputs}

\* In this state: a cancel succeeds only on an order whose paymentStatus is
\* PENDING, and a cancel of an order that has been canceled fails with the
\* business-rule error and changes nothing.
C4_CancelGuard ==
    \A c \in CancelRequests(DB) :
        LET r == CancelOrderResult(DB, c[1], c[2], c[3])
            n == OrderIndex(DB, c[1])
        IN  /\ r.reply.err = "none" =>
                   n # 0 /\ orders[n].paymentStatus = PENDING
            /\ (n # 0 /\ orders[n].paymentStatus = FAILED
                      /\ orders[n].userId = c[2]) =>
                   r.reply.err = "BadRequest" /\ DbUnchanged(r)

\* C4: cancel succeeds only when the order's paymentStatus is PENDING; once
\* a cancel has succeeded the order stays out of PENDING, and every later
\* cancel of it fails with the business-rule error and changes nothing.
C4_CancelOnlyPending ==
    /\ []C4_CancelGuard
    /\ [][\A n \in 1..Len(orders) :
             orders[n].paymentStatus = FAILED =>
                 /\ Len(orders') >= n
                 /\ orders'[n].paymentStatus = FAILED]_vars

\* An order has been canceled.
C4_Witness ==
    \E n \in 1..Len(orders) :
        /\ orders[n].paymentStatus = FAILED
        /\ orders[n].shippingStatus = CANCELED
        /\ CancelOrderResult(DB, OrderId(n), orders[n].userId, NoFault).reply.err
               = "BadRequest"

\* The results of a create followed by a cancel of the new order by its
\* owner, as pairs.
CreateThenCancel(dto) ==
    {<<r1, CancelOrderResult(r1.db, OrderId(Len(orders) + 1), "u1", fault)>> :
        r1 \in {r \in CreateOutcomes(DB, "u1", dto) : r.reply.err = "none"},
        fault \in AllFaults(dto.items)}

Canceled(r, n) ==
    /\ r.db.orders[n].paymentStatus = FAILED
    /\ r.db.orders[n].shippingStatus = CANCELED

SignatureMismatch(query) ==
    LET remaining == SelectSeq(query, LAMBDA kv :
                         kv[1] \notin {"vnp_SecureHash", "vnp_SecureHashType"})
    IN  Get(query, "vnp_SecureHash")
            # <<Hmac(HashSecret, Stringify(SortObject(remaining)))>>

\* C8: a callback whose signature differs from the recomputed one fails with
\* the invalid-signature error and leaves orders, payment-history records
\* and the email collaborator untouched.
C8_InvalidSignatureTouchesNothing ==
    \A query \in CallbackInputs(DB) :
        SignatureMismatch(query) =>
            LET r == HandleVnpayReturnResult(DB, query)
            IN  r.reply.err = "InvalidSignature" /\ DbUnchanged(r)

\* A forged success callback for a pending attempt is rejected, while the
\* callback of the gateway for the same attempt would be accepted.
C8_Witness ==
    \E k \in 1..Len(payments) :
        /\ payments[k].status = PENDING
        /\ \E query \in ForgedCallbacks(payments[k].urlTxnRef) :
               /\ Get(query, "vnp_SecureHash") # Null
               /\ SignatureMismatch(query)
               /\ HandleVnpayReturnResult(DB, query).reply.err = "InvalidSignature"
        /\ ~DbUnchanged(HandleVnpayReturnResult(
                            DB, GatewayCallback(payments[k].urlTxnRef, "00")))

\* The payment attempts that are pending for an online order whose
\* paymentStatus is PENDING, as pairs of record and order.
PendingAttempts ==
    {<<k, n>> \in (1..Len(payments)) \X (1..Len(orders)) :
        /\ payments[k].orderId = OrderId(n)
        /\ payments[k].status = PENDING
        /\ orders[n].paymentMethod = ONLINE_PAYMENT
        /\ orders[n].paymentStatus = PENDING}

\* C6 as stated: the same successful callback delivered twice in sequence
\* makes one PENDING->COMPLETED transition of the record, one update of the
\* order and one invocation of the confirmation email: the second delivery
\* changes nothing.
C6_ReplayIsIdempotent ==
    \A a \in PendingAttempts :
        LET query == GatewayCallback(payments[a[1]].urlTxnRef, "00")
            r1 == HandleVnpayReturnResult(DB, query)
            r2 == HandleVnpayReturnResult(r1.db, query)
        IN  /\ Len(r2.db.emails) = Len(emails) + 1
            /\ r2.db.payments = r1.db.payments
            /\ r2.db.orders = r1.db.orders

\* C9 as stated: a correctly signed callback with response code "00" for a
\* pending attempt of an online order with paymentStatus PENDING leaves the
\* record COMPLETED, the order's paymentStatus COMPLETED and paidAt set, and
\* invokes the confirmation email once.
C9_SuccessCallbackPaysOrder ==
    \A a \in PendingAttempts :
        LET r == HandleVnpayReturnResult(
                     DB, GatewayCallback(payments[a[1]].urlTxnRef, "00"))
        IN  /\ r.db.payments[a[1]].status = COMPLETED
            /\ r.db.orders[a[2]].paymentStatus = COMPLETED
            /\ r.db.orders[a[2]].paidAt # NoDate
            /\ r.db.emails = Append(emails, OrderId(a[2]))

\* C10 as stated: a correctly signed callback with a response code other
\* than "00" marks the record of the attempt FAILED with a reason naming the
\* code and leaves the order's paymentStatus PENDING, and a processPayment of
\* the owner that follows succeeds with a new attempt.
C10_FailureCallbackIsResumable ==
    \A a \in PendingAttempts :
        \A code \in ResponseCodes \ {"00"} :
            LET r == HandleVnpayReturnResult(
                         DB, GatewayCallback(payments[a[1]].urlTxnRef, code))
                id == OrderId(a[2])
                pay == ProcessPaymentResult(r.db, id, orders[a[2]].userId, 0, FALSE)
            IN  /\ r.db.payments[a[1]].status = FAILED
                /\ r.db.payments[a[1]].failureReason = FailureReason(<<code>>)
                /\ r.db.orders[a[2]].paymentStatus = PENDING
                /\ pay.reply.err = "none"
                /\ Len(pay.db.payments) = Len(payments) + 1
                /\ pay.reply.txn # NoTxn

\* Two handlers are handling callbacks for the same transaction.
SameTransaction(g, h) ==
    /\ g # h
    /\ inflight[g] # Idle /\ inflight[h] # Idle
    /\ Get(inflight[g].query, "vnp_TxnRef") = Get(inflight[h].query, "vnp_TxnRef")

\* The handler has taken the record out of PENDING.
Transitioned(h) ==
    inflight[h].wrote /\ inflight[h].paymentHistory.status = PENDING

\* C7 as stated: of two callbacks for the same transaction handled
\* concurrently, at most one takes the payment-history record out of
\* PENDING and at most one sends the confirmation email.
C7_ConcurrentCallbacksOnce ==
    \A g, h \in Handlers :
        SameTransaction(g, h) =>
            /\ ~(Transitioned(g) /\ Transitioned(h))
            /\ ~(inflight[g].sent /\ inflight[h].sent)

\* The parameters of a signed parameter set with the value of parameter i
\* changed.
Tampered(params, i) == [params EXCEPT ![i] = <<params[i][1], <<"tampered">> >>]

\* C11 as stated: the signature that the outbound signing routine produces
\* for the parameters of a redirect is accepted by the inbound verification
\* under the same secret, and a change of any one parameter value after
\* signing makes the verification fail.
C11_SigningRoundTrip ==
    \A n \in 1..Len(orders) :
        LET signedParams == CreateVnpayPaymentUrl(orders[n], OrderId(n), now).params
        IN  /\ SignatureValid(signedParams)
            /\ \A i \in 1..Len(signedParams) :
                   signedParams[i][1] # "vnp_SecureHash" =>
                       ~SignatureValid(Tampered(signedParams, i))

\* The results of cancel, cancelCashOnDelivery and processPayment for an
\* order id and a user, whatever fails and however the clock moves.
OwnerOperationResults(id, userId) ==
    {CancelOrderResult(DB, id, userId, fault) :
        fault \in AllFaults(OrderItems(DB, id))}
    \cup {CancelCashOnDeliveryOrderResult(DB, id, userId, reason, fault) :
            reason \in ReasonInputs, fault \in AllFaults(OrderItems(DB, id))}
    \cup {ProcessPaymentResult(DB, id, userId, skew, createFails) :
            skew \in 0..1, createFails \in BOOLEAN}

NotFoundUnchanged(r) == r.reply.err = "OrderNotFound" /\ DbUnchanged(r)

\* C12: cancel, cancelCashOnDelivery and processPayment called by a user who
\* does not own the order answer OrderNotFound, as they do for an order that
\* does not exist, and change nothing, whatever the status and the payment
\* method of the order.
C12_NotOwnerIsNotFound ==
    /\ \A r \in OwnerOperationResults(OrderId(0), "u1") : NotFoundUnchanged(r)
    /\ \A n \in 1..Len(orders) :
           \A userId \in UserIds \ {orders[n].userId} :
               \A r \in OwnerOperationResults(OrderId(n), userId) :
                   NotFoundUnchanged(r)

\* An order that its owner could cancel is not found for another user.
C12_Witness ==
    \E n \in 1..Len(orders) :
        /\ CancelOrderResult(DB, OrderId(n), orders[n].userId, NoFault).reply.err
               = "none"
        /\ \E userId \in UserIds \ {orders[n].userId} :
               NotFoundUnchanged(CancelOrderResult(DB, OrderId(n), userId, NoFault))

\* The stock with the quantity of every item that names a variant put back.
Credited(st, items) ==
    [v \in DOMAIN st |->
        st[v] + SetSum([i \in 1..Len(items) |->
                           IF items[i].variantId = v THEN items[i].quantity ELSE 0],
                       1..Len(items))]

CashOnDeliveryCancellable(order) ==
    /\ order.paymentMethod = CASH_ON_DELIVERY
    /\ order.paymentStatus = PENDING
    /\ order.shippingStatus = PENDING

Payable(order, userId) ==
    /\ order.userId = userId
    /\ order.paymentStatus = PENDING
    /\ order.paymentMethod = ONLINE_PAYMENT

\* C14 as stated: processPayment succeeds exactly when the caller owns the
\* order, its paymentStatus is PENDING and its paymentMethod is
\* ONLINE_PAYMENT (no collaborator failing); a success returns the
\* transaction of the redirect and adds one PENDING payment-history record of
\* the order, so that it can be repeated while the order stays PENDING.
C14_ProcessPaymentWhilePending ==
    \A n \in 1..Len(orders), userId \in UserIds :
        LET r == ProcessPaymentResult(DB, OrderId(n), userId, 0, FALSE)
        IN  /\ r.reply.err = "none" <=> Payable(orders[n], userId)
            /\ r.reply.err = "none" =>
                   /\ r.reply.txn # NoTxn
                   /\ Len(r.db.payments) = Len(payments) + 1
                   /\ SubSeq(r.db.payments, 1, Len(payments)) = payments
                   /\ r.db.payments[Len(payments) + 1].orderId = OrderId(n)
                   /\ r.db.payments[Len(payments) + 1].status = PENDING
                   /\ r.db.orders = orders

\* C15: in every step of create, cancel, cancelCashOnDelivery, processPayment
\* and the gateway callbacks, the paymentStatus of an order changes only from
\* PENDING, and only to COMPLETED or FAILED: a COMPLETED or FAILED
\* paymentStatus stays as it is, also when a successful callback arrives
\* after a cancel.
C15_PaymentStatusTerminal ==
    [][\A n \in 1..Len(orders) :
           /\ n <= Len(orders')
           /\ orders'[n].paymentStatus # orders[n].paymentStatus =>
                  /\ orders[n].paymentStatus = PENDING
                  /\ orders'[n].paymentStatus \in {COMPLETED, FAILED}]_vars

\* A cancelled order that a successful callback has reached: its
\* paymentStatus is FAILED and its payment record is COMPLETED.
C15_Witness ==
    \E n \in 1..Len(orders) :
        /\ orders[n].paymentStatus = FAILED
        /\ orders[n].paidAt # NoDate
        /\ \E k \in 1..Len(payments) :
               payments[k].orderId = OrderId(n) /\ payments[k].status = COMPLETED

\* The successful cancellations of order n in the current state: cancel and
\* cancelCashOnDelivery by the owner, whatever fails.
SuccessfulCancellations(n) ==
    {r \in {CancelOrderResult(DB, OrderId(n), orders[n].userId, fault) :
               fault \in AllFaults(orders[n].items)}
           \cup {CancelCashOnDeliveryOrderResult(DB, OrderId(n), orders[n].userId,
                                                 reason, fault) :
                    reason \in ReasonInputs, fault \in AllFaults(orders[n].items)} :
        r.reply.err = "none"}

\* C16 as stated: every step that sets shippingStatus to CANCELED (a
\* successful cancel or cancelCashOnDelivery) starts from shippingStatus
\* PENDING with paymentStatus PENDING or FAILED, and a CANCELED
\* shippingStatus never changes again.
C16_CanceledFromPendingOnly ==
    /\ [](\A n \in 1..Len(orders) :
              SuccessfulCancellations(n) # {} =>
                  /\ orders[n].shippingStatus = PENDING
                  /\ orders[n].paymentStatus \in {PENDING, FAILED})
    /\ [][\A n \in 1..Len(orders) :
              orders[n].shippingStatus = CANCELED =>
                  n <= Len(orders') /\ orders'[n].shippingStatus = CANCELED]_vars

\* Every item of the request names a variant.
AllNameVariant(items) == \A i \in 1..Len(items) : items[i].variantId # NoVariant

\* The stock with the quantity of every item taken from the variant it names.
Debited(st, items) ==
    [v \in DOMAIN st |->
        st[v] - SetSum([i \in 1..Len(items) |->
                           IF items[i].variantId = v THEN items[i].quantity ELSE 0],
                       1..Len(items))]

\* C17: a create that succeeds, whose items all name a variant and whose
\* stock debits all succeed (no collaborator fails), persists the order with
\* paymentStatus PENDING and shippingStatus PENDING and leaves the stock of
\* each variant at its previous value minus the quantity ordered of it.
C17_CreateDebitsStock ==
    \A dto \in CreateRequests :
        AllNameVariant(dto.items) =>
            \A pick \in 0..Len(dto.items) :
                LET r == CreateResult(DB, "u1", dto, pick, NoFault, 0)
                IN  (pick \in Picks(stock, dto.items) /\ r.reply.err = "none") =>
                        /\ Len(r.db.orders) = Len(orders) + 1
                        /\ r.db.orders[Len(orders) + 1].paymentStatus = PENDING
                        /\ r.db.orders[Len(orders) + 1].shippingStatus = PENDING
                        /\ r.db.stock = Debited(stock, dto.items)

\* An order of MaxQty of v1 and one of v2 has been created from a stock of
\* MaxStock of v1 and one of v2, which are debited.
C17_Witness ==
    /\ Len(orders) = 1
    /\ Len(orders[1].items) = 2
    /\ orders[1].items[1].variantId = "v1" /\ orders[1].items[1].quantity = MaxQty
    /\ orders[1].items[2].variantId = "v2" /\ orders[1].items[2].quantity = 1
    /\ orders[1].paymentStatus = PENDING /\ orders[1].shippingStatus = PENDING
    /\ stock = [v1 |-> MaxStock - MaxQty, v2 |-> 0]

\* C18: a create with paymentMethod ONLINE_PAYMENT that succeeds has added
\* exactly one payment-history record, of the new order and with status
\* PENDING, and replies with the transaction of the redirect; a create with
\* paymentMethod CASH_ON_DELIVERY adds no payment-history record and replies
\* without a redirect.
C18_OneAttemptPerOnlineCreate ==
    \A dto \in CreateRequests :
        \A r \in CreateOutcomes(DB, "u1", dto) :
            IF dto.paymentMethod = ONLINE_PAYMENT
            THEN r.reply.err = "none" =>
                     /\ Len(r.db.payments) = Len(payments) + 1
                     /\ SubSeq(r.db.payments, 1, Len(payments)) = payments
                     /\ r.db.payments[Len(payments) + 1].orderId = r.reply.id
                     /\ r.db.payments[Len(payments) + 1].status = PENDING
                     /\ r.reply.id = OrderId(Len(orders) + 1)
                     /\ r.reply.txn # NoTxn
            ELSE r.db.payments = payments /\ r.reply.txn = NoTxn

\* An ONLINE_PAYMENT order has been created, and the only payment-history
\* record is its PENDING one.
C18_Witness ==
    /\ Len(orders) = 1
    /\ orders[1].paymentMethod = ONLINE_PAYMENT
    /\ Len(orders[1].items) > 0
    /\ Len(payments) = 1
    /\ payments[1].orderId = OrderId(1)
    /\ payments[1].status = PENDING

\* The verification of the voucher of a request against the subtotal of its
\* items at catalog prices returns valid.
VoucherVerified(dto) ==
    /\ dto.voucherId \in VoucherIds
    /\ \A i \in 1..Len(dto.items) : Resolvable(stock, dto.items[i])
    /\ VerifyVoucher(DB, dto.voucherId,
           SetSum([i \in 1..Len(dto.items) |->
                      CatalogPrice(dto.items[i]) * dto.items[i].quantity],
                  1..Len(dto.items))).valid

\* C19: a create that persists an order with a voucher has incremented the
\* usage of that voucher exactly once, after its verification against the
\* subtotal returned valid; no create increments any usage otherwise, in
\* particular not when the verification failed.
C19_VoucherAppliedOnce ==
    \A dto \in CreateRequests :
        \A r \in CreateOutcomes(DB, "u1", dto) :
            /\ (Len(r.db.orders) = Len(orders) + 1 /\ dto.voucherId # NoVoucher) =>
                   /\ VoucherVerified(dto)
                   /\ r.db.orders[Len(orders) + 1].voucherId = dto.voucherId
                   /\ r.db.voucherUsed[dto.voucherId] = voucherUsed[dto.voucherId] + 1
            /\ r.db.voucherUsed # voucherUsed =>
                   /\ VoucherVerified(dto)
                   /\ r.db.voucherUsed =
                          [voucherUsed EXCEPT ![dto.voucherId] = @ + 1]

\* An order has been created with the voucher vc1, whose usage is counted
\* once.
C19_Witness ==
    /\ Len(orders) = 1
    /\ orders[1].voucherId = "vc1"
    /\ orders[1].discountAmount > 0
    /\ voucherUsed["vc1"] = 1

\* The catalog has the product of the item, with variants, and the variant
\* the item names.
InCatalog(item) ==
    /\ item.productId \in DOMAIN ProductVariants
    /\ ProductVariants[item.productId] # {}
    /\ item.variantId # NoVariant => item.variantId \in ProductVariants[item.productId]

\* The quantity of variant v that the stock updates of a request have taken.
Taken(c, v) ==
    SetSum([k \in 1..Len(c.adjusted) |->
               IF c.dto.items[c.adjusted[k]].variantId = v
               THEN c.dto.items[c.adjusted[k]].quantity ELSE 0],
           1..Len(c.adjusted))

\* C20: in every create, the order is persisted only when all items are
\* resolved and validated; a stock debit is issued only when the order is
\* persisted; the debits are issued one at a time in the order of the items
\* (the debits done are the first of the items with a variant, none left
\* out, and account for all the stock taken); the payment session of an
\* ONLINE_PAYMENT order is created only when the debit phase has ended.
C20_CreateStepsInOrder ==
    /\ \A h \in Handlers :
           inflight[h] # Idle =>
               LET c == inflight[h]
                   items == c.dto.items
                   toAdjust == ToAdjust(items, 1)
               IN  /\ c.n # 0 =>
                          /\ c.n <= Len(orders)
                          /\ DOMAIN c.orderItems = 1..Len(items)
                          /\ \A i \in 1..Len(items) : InCatalog(items[i])
                          /\ orders[c.n].items = c.orderItems
                   /\ (c.adjusted # <<>> \/ c.threw) => c.n # 0
                   /\ \A k \in 1..Len(c.adjusted) :
                          /\ c.adjusted[k] \in toAdjust
                          /\ Cardinality({j \in toAdjust : j < c.adjusted[k]}) = k - 1
                   /\ (\E k \in 1..Len(payments) :
                           c.n # 0 /\ payments[k].orderId = OrderId(c.n)) =>
                          /\ c.dto.paymentMethod = ONLINE_PAYMENT
                          /\ c.threw \/ Len(c.adjusted) = Cardinality(toAdjust)
    /\ \A v \in VariantIds :
           stock[v] = InitStock[v]
                      - SetSum([h \in Handlers |->
                                   IF inflight[h] = Idle THEN 0
                                   ELSE Taken(inflight[h], v)], Handlers)

\* An ONLINE_PAYMENT create of two items with variants has ended: both
\* debits are done, first the one of item 1, and the payment session exists.
C20_Witness ==
    \E h \in Handlers :
        /\ inflight[h] # Idle
        /\ inflight[h].pc = "done"
        /\ inflight[h].err = "none"
        /\ inflight[h].adjusted = <<1, 2>>
        /\ \E k \in 1..Len(payments) :
               payments[k].orderId = OrderId(inflight[h].n)


\* C21: when the stock debit of item k fails during create, the debits of
\* the items before k stay (all of them, and the stock of every variant is
\* short of exactly the debits done), the order stays persisted, and create
\* ends by returning the order as created.
C21_DebitFailureKeepsOrder ==
    /\ \A h \in Handlers :
           (inflight[h] # Idle /\ inflight[h].threw) =>
               LET c == inflight[h]
                   k == SetMin(ToAdjust(c.dto.items, c.i))
               IN  /\ c.n \in 1..Len(orders)
                   /\ orders[c.n].items = c.orderItems
                   /\ Len(c.adjusted) =
                          Cardinality({j \in ToAdjust(c.dto.items, 1) : j < k})
                   /\ c.pc = "done" => c.err = "none"
    /\ (\E h \in Handlers : inflight[h] # Idle /\ inflight[h].threw) =>
           \A v \in VariantIds :
               stock[v] = InitStock[v]
                          - SetSum([h \in Handlers |->
                                       IF inflight[h] = Idle THEN 0
                                       ELSE Taken(inflight[h], v)], Handlers)

\* A create of two items with variants has ended after the debit of its
\* second item failed: the debit of the first is done.
C21_Witness ==
    \E h \in Handlers :
        /\ inflight[h] # Idle
        /\ inflight[h].threw
        /\ inflight[h].pc = "done"
        /\ inflight[h].adjusted = <<1>>
        /\ inflight[h].i = 2
        /\ stock[inflight[h].dto.items[1].variantId] < InitStock[inflight[h].dto.items[1].variantId]

\* The transaction references of the redirects whose record has the same
\* transactionId.
RecordedTxnRefs ==
    {payments[k].urlTxnRef : k \in {j \in 1..Len(payments) :
        payments[j].urlTxnRef = payments[j].transactionId}}

\* C22 as stated: a callback of the gateway for an issued transaction
\* reference updates the PENDING payment-history record whose transactionId
\* is that reference, changes no other record, and changes no record that is
\* already COMPLETED or FAILED.
C22_CallbackUpdatesItsAttempt ==
    \A t \in RecordedTxnRefs, code \in ResponseCodes :
        LET r == HandleVnpayReturnResult(DB, GatewayCallback(t, code))
        IN  /\ Len(r.db.payments) = Len(payments)
            /\ \A k \in 1..Len(payments) :
                   /\ r.db.payments[k] # payments[k] =>
                          /\ payments[k].transactionId = t
                          /\ payments[k].status = PENDING
                   /\ (payments[k].transactionId = t /\ payments[k].status = PENDING) =>
                          r.db.payments[k].status # PENDING

\* The results of the cancel and cancelCashOnDelivery calls of the owner of
\* order n in database d, whatever fails.
CancelCalls(d, n) ==
    {CancelOrderResult(d, OrderId(n), d.orders[n].userId, fault) :
        fault \in AllFaults(d.orders[n].items)}
    \cup {CancelCashOnDeliveryOrderResult(d, OrderId(n), d.orders[n].userId,
                                          reason, fault) :
             reason \in ReasonInputs, fault \in AllFaults(d.orders[n].items)}

\* C23 as stated: for an order whose creation debited all its items, the
\* cancel and cancelCashOnDelivery calls made for it, one after the other
\* (cancelCashOnDelivery then cancel, a retry after a failure), credit each
\* variant with at most the quantity that the creation debited from it.
C23_CreditsWithinDebits ==
    \A n \in 1..Len(orders) :
        (faults = 0 /\ orders[n].shippingStatus = PENDING
                    /\ orders[n].paymentStatus = PENDING) =>
            \A r1 \in CancelCalls(DB, n) :
                \A r2 \in CancelCalls(r1.db, n) :
                    \A v \in VariantIds :
                        r2.db.stock[v] <= Credited(stock, orders[n].items)[v]


\* C24 as stated: no order is both paid and canceled: an order whose
\* shippingStatus is CANCELED has neither paymentStatus COMPLETED nor paidAt
\* set, also when a successful callback for an attempt issued before the
\* cancel arrives after it.
C24_NotPaidAndCanceled ==
    \A n \in 1..Len(orders) :
        orders[n].shippingStatus = CANCELED =>
            /\ orders[n].paymentStatus # COMPLETED
            /\ orders[n].paidAt = NoDate

\* C25 as stated: under every interleaving of concurrent creates, the stock
\* of no variant becomes negative.
C25_StockNeverNegative ==
    \A v \in VariantIds : stock[v] >= 0

\* C26 as stated: a create that returns an error leaves nothing behind: no
\* order persisted, no stock debited, no voucher usage consumed, also when
\* the voucher application, the save of the order or the creation of the
\* payment session is what fails.
C26_FailedCreateLeavesNothing ==
    \A dto \in CreateRequests :
        \A r \in CreateOutcomes(DB, "u1", dto) :
            r.reply.err # "none" => DbUnchanged(r)

\* C27 as stated: the transactionId of every payment-history record is the
\* transaction reference (vnp_TxnRef) of the redirect URL issued with it.
C27_TransactionIdIsTxnRef ==
    \A k \in 1..Len(payments) :
        payments[k].transactionId = payments[k].urlTxnRef

\* C28 as stated: an order that a callback has marked paid has a
\* payment-history record with status COMPLETED, and no step changes a
\* COMPLETED record to FAILED.
C28_PaidOrderHasCompletedRecord ==
    /\ [](\A n \in 1..Len(orders) :
              orders[n].paidAt # NoDate =>
                  \E k \in 1..Len(payments) :
                      /\ payments[k].orderId = OrderId(n)
                      /\ payments[k].status = COMPLETED)
    /\ [][\A k \in 1..Len(payments) :
              payments[k].status = COMPLETED => payments'[k].status # FAILED]_vars

\* C29: for a request with an item without a variantId, a create that
\* succeeds (no collaborator failing) takes from the stock the quantities of
\* the items that name a variant and nothing else, and a cancel or
\* cancelCashOnDelivery that follows puts exactly those back: the item
\* without a variantId changes the stock of no variant.
C29_NoVariantItemLeavesStock ==
    \A dto \in CreateRequests :
        (\E i \in 1..Len(dto.items) : dto.items[i].variantId = NoVariant) =>
            LET r1 == CreateResult(DB, "u1", dto, 0, NoFault, 0)
                id == OrderId(Len(orders) + 1)
            IN  (Picks(stock, dto.items) = {0} /\ r1.reply.err = "none") =>
                    /\ r1.db.stock = Debited(stock, dto.items)
                    /\ \A r2 \in {CancelOrderResult(r1.db, id, "u1", NoFault)}
                                 \cup {CancelCashOnDeliveryOrderResult(
                                           r1.db, id, "u1", reason, NoFault) :
                                       reason \in ReasonInputs} :
                           r2.reply.err = "none" => r2.db.stock = stock

\* An order of items without a variantId has been created and the stock of
\* every variant is what it was, the most there can be.
C29_Witness ==
    /\ Len(orders) = 1
    /\ Len(orders[1].items) > 0
    /\ \A i \in 1..Len(orders[1].items) : orders[1].items[i].variantId = NoVariant
    /\ \A v \in VariantIds : stock[v] = MaxStock

(***************************************************************************)
(* The cart (modules/cart/cart.service.ts, database/schemas/cart.schema).  *)
(* One user's Cart document is modelled: `cart.exists` says whether the    *)
(* document is in the collection, `cart.items` is its items array.  An     *)
(* item is [productId, variantId, quantity]; the schema gives items no     *)
(* _id.  The limits are scaled down from the source's (50 items, 1000 per  *)
(* item in the service, 10 per item in the schema), keeping their order:   *)
(* the schema's maximum is below the service's.  totalPrice and the        *)
(* replies are not modelled.                                               *)
(***************************************************************************)
MAX_CART_ITEMS == 2
MAX_QUANTITY_PER_ITEM == 3
MIN_QUANTITY_PER_ITEM == 1
CartItemMinQuantity == 1
CartItemMaxQuantity == 2
MaxGuestItems == 2

\* Product "p4" exists and is not active; "p3" does not exist.
InactiveProducts == {"p4"}
ProductFound(productId) ==
    productId \in DOMAIN ProductVariants \cup InactiveProducts
ProductIsActive(productId) == productId \notin InactiveProducts

CartItem(productId, variantId, quantity) ==
    [productId |-> productId, variantId |-> variantId, quantity |-> quantity]

\* The schema's validation of the items array, run by cart.save().
CartItemsValid(items) ==
    \A k \in 1..Len(items) :
        /\ items[k].quantity >= CartItemMinQuantity
        /\ items[k].quantity <= CartItemMaxQuantity

\* cart.save(): the document is stored when it validates, else save throws
\* and the stored document stays as it was.
CartSave(stored, items) ==
    IF CartItemsValid(items) THEN [exists |-> TRUE, items |-> items]
    ELSE stored

\* findOne({userId}) followed by create({userId, items: []}) when absent.
FindOrCreateCart(c) == [exists |-> TRUE, items |-> c.items]

\* The predicate of the findIndex and some calls on (productId, variantId).
SameCartItem(item, productId, variantId) ==
    /\ item.productId = productId
    /\ (variantId = NoVariant \/ item.variantId = variantId)

\* Array.findIndex, 1-based; 0 stands for -1.
CartItemIndex(items, productId, variantId) ==
    LET hits == {k \in 1..Len(items) :
                     SameCartItem(items[k], productId, variantId)}
    IN  IF hits = {} THEN 0 ELSE SetMin(hits)

\* Array.splice(k, 1).
SpliceItem(items, k) ==
    [j \in 1..(Len(items) - 1) |-> IF j < k THEN items[j] ELSE items[j + 1]]

AddToCartCart(c, productId, quantity, variantId) ==
    IF quantity < MIN_QUANTITY_PER_ITEM \/ quantity > MAX_QUANTITY_PER_ITEM
    THEN c
    ELSE IF ~ProductFound(productId) \/ ~ProductIsActive(productId) THEN c
    ELSE LET found == FindOrCreateCart(c)
             items == found.items
             k     == CartItemIndex(items, productId, variantId)
         IN  IF /\ Len(items) >= MAX_CART_ITEMS
                /\ ~\E j \in 1..Len(items) : items[j].productId = productId
             THEN found
             ELSE IF variantId # NoVariant /\ ~IsValidObjectId(variantId)
             THEN found
             ELSE IF k > 0
             THEN LET newQuantity == items[k].quantity + quantity
                  IN  IF newQuantity > MAX_QUANTITY_PER_ITEM THEN found
                      ELSE CartSave(found,
                               [items EXCEPT ![k].quantity = newQuantity])
             ELSE CartSave(found,
                      Append(items, CartItem(productId, variantId, quantity)))

\* An item has no _id (cart.schema.ts: _id: false), so item._id.toString()
\* throws on the first item findIndex visits; on an empty array no item is
\* found.  Either way nothing is stored.
UpdateCartItemByIdCart(c, cartItemId, quantity) == c

RemoveFromCartCart(c, productId, variantId) ==
    IF ~c.exists THEN c
    ELSE LET k == CartItemIndex(c.items, productId, variantId)
         IN  IF k = 0 THEN c ELSE CartSave(c, SpliceItem(c.items, k))

ClearCartCart(c) == IF ~c.exists THEN c ELSE CartSave(c, <<>>)

\* The filter reads item._id.toString() of every item: it throws on a cart
\* with items and keeps an empty array empty.
RemoveCartItemsCart(c, itemIds) ==
    IF ~c.exists THEN c
    ELSE IF Len(c.items) > 0 THEN c
    ELSE CartSave(c, c.items)

\* The loop of mergeGuestCart from guest item i on: the items array it
\* leaves, and whether new Types.ObjectId(variantId) threw on the way.
RECURSIVE MergeLoop(_, _, _)
MergeLoop(items, guestCartItems, i) ==
    IF i > Len(guestCartItems) THEN [items |-> items, threw |-> FALSE]
    ELSE LET guestItem == guestCartItems[i]
             k == CartItemIndex(items, guestItem.productId,
                                guestItem.variantId)
             quantity == Min(Max(guestItem.quantity, MIN_QUANTITY_PER_ITEM),
                             MAX_QUANTITY_PER_ITEM)
         IN  IF \/ ~ProductFound(guestItem.productId)
                \/ ~ProductIsActive(guestItem.productId)
             THEN MergeLoop(items, guestCartItems, i + 1)
             ELSE IF /\ guestItem.variantId # NoVariant
                     /\ ~IsValidObjectId(guestItem.variantId)
             THEN [items |-> items, threw |-> TRUE]
             ELSE IF k > 0
             THEN MergeLoop(
                      [items EXCEPT
                           ![k].quantity = Max(items[k].quantity, quantity)],
                      guestCartItems, i + 1)
             ELSE MergeLoop(
                      Append(items, CartItem(guestItem.productId,
                                             guestItem.variantId, quantity)),
                      guestCartItems, i + 1)

MergeGuestCartCart(c, guestCartItems) ==
    LET found == FindOrCreateCart(c)
        newUniqueItems ==
            {i \in 1..Len(guestCartItems) :
                 ~\E j \in 1..Len(found.items) :
                      SameCartItem(found.items[j],
                                   guestCartItems[i].productId,
                                   guestCartItems[i].variantId)}
        loop == MergeLoop(found.items, guestCartItems, 1)
    IN  IF Len(guestCartItems) = 0 THEN found
        ELSE IF Len(found.items) + Cardinality(newUniqueItems)
                    > MAX_CART_ITEMS
        THEN found
        ELSE IF loop.threw THEN found
        ELSE CartSave(found, loop.items)

\* The requests of the cart's client.
CartQuantities == 0..(MAX_QUANTITY_PER_ITEM + 1)
CartProductVariants ==
    {<<"p1", NoVariant>>, <<"p1", "v1">>, <<"p1", "v2">>, <<"p1", "bad">>,
     <<"p2", NoVariant>>, <<"p2", "v1">>,
     <<"p3", NoVariant>>, <<"p4", NoVariant>>}
GuestCartItems ==
    {CartItem(pv[1], pv[2], q) :
         pv \in CartProductVariants \ {<<"p1", "v2">>, <<"p3", NoVariant>>},
         q \in {0, 1, MAX_QUANTITY_PER_ITEM + 1}}
GuestCarts ==
    UNION {[1..n -> GuestCartItems] : n \in 0..MaxGuestItems}

AddToCart ==
    /\ \E pv \in CartProductVariants, quantity \in CartQuantities :
           cart' = AddToCartCart(cart, pv[1], quantity, pv[2])
    /\ UNCHANGED <<stock, voucherUsed, orders, payments, emails, now, faults,
                   inflight>>

UpdateCartItemById ==
    /\ \E cartItemId \in {"i1"}, quantity \in CartQuantities :
           cart' = UpdateCartItemByIdCart(cart, cartItemId, quantity)
    /\ UNCHANGED <<stock, voucherUsed, orders, payments, emails, now, faults,
                   inflight>>

RemoveFromCart ==
    /\ \E pv \in CartProductVariants :
           cart' = RemoveFromCartCart(cart, pv[1], pv[2])
    /\ UNCHANGED <<stock, voucherUsed, orders, payments, emails, now, faults,
                   inflight>>

ClearCart ==
    /\ cart' = ClearCartCart(cart)
    /\ UNCHANGED <<stock, voucherUsed, orders, payments, emails, now, faults,
                   inflight>>

RemoveCartItems ==
    /\ \E itemIds \in SUBSET {"i1"} :
           cart' = RemoveCartItemsCart(cart, itemIds)
    /\ UNCHANGED <<stock, voucherUsed, orders, payments, emails, now, faults,
                   inflight>>

MergeGuestCart ==
    /\ \E guestCartItems \in GuestCarts :
           cart' = MergeGuestCartCart(cart, guestCartItems)
    /\ UNCHANGED <<stock, voucherUsed, orders, payments, emails, now, faults,
                   inflight>>

NextCart ==
    \/ AddToCart
    \/ UpdateCartItemById
    \/ RemoveFromCart
    \/ ClearCart
    \/ RemoveCartItems
    \/ MergeGuestCart

SpecCart == Init /\ [][NextCart]_vars

\* C30: after any sequence of addToCart, updateCartItemById, removeFromCart,
\* removeCartItems, clearCart and mergeGuestCart the cart holds at most
\* MAX_CART_ITEMS items and every item's quantity lies between
\* MIN_QUANTITY_PER_ITEM and MAX_QUANTITY_PER_ITEM, a new variant of a
\* product of a full cart included.
C30_CartWithinLimits ==
    /\ Len(cart.items) <= MAX_CART_ITEMS
    /\ \A k \in 1..Len(cart.items) :
           /\ cart.items[k].quantity >= MIN_QUANTITY_PER_ITEM
           /\ cart.items[k].quantity <= MAX_QUANTITY_PER_ITEM
=============================================================================
